---- MODULE Spec2Model ----
(***************************************************************************)
(* Model of the metadata pipeline of app.py: the job registry (jobs,       *)
(* update_job), job submission (api_start), the per-job worker thread      *)
(* (worker) with every point at which it can raise, the lazy speech-model  *)
(* loader (get_whisper), link validation (validate_links) and the QA       *)
(* validator (qa_check).                                                   *)
(*                                                                         *)
(* Python values are encoded as follows.  None is the string "None".       *)
(* qa_pass is one of "None", "True", "False".  A text is a sequence of     *)
(* lines and a line is a sequence of character runs [k, n]: n characters   *)
(* of kind k ("" is the empty sequence of lines).  An exception is a       *)
(* record [msg, context]: str(e) and the message of the exception it       *)
(* replaced while that one was propagating (Python's __context__).         *)
(* The non-ASCII ellipsis of the stage labels is written "...".            *)
(***************************************************************************)
EXTENDS Integers, Sequences, FiniteSets, TLC

\* ------------------------------------------------------------------------
\* Bounds of the model
\* ------------------------------------------------------------------------
MaxSegs == 2
MaxUrls == 1

\* The job ids uuid4 hands out: distinct by construction.
JobIds == {1, 2}

None == "None"

\* ------------------------------------------------------------------------
\* Inputs
\* ------------------------------------------------------------------------
LinkModes == {"not_provided", "checked_no_links", "not_available", "provided"}

\* ffprobe_duration: 0.0 when ffprobe fails, else the duration in seconds.
Durations == {0, 11}

\* Speech segments (start, end, text) the transcription engine may yield.
SegPool ==
  { [start |-> 65, end |-> 3,  text |-> "speech"],
    [start |-> 65, end |-> 14, text |-> "speech"] }

\* ------------------------------------------------------------------------
\* Stage labels written by worker and api_start
\* ------------------------------------------------------------------------
StQueued     == "Queued..."
StExtracting == "Extracting audio..."
StLoading    == "Loading speech model... (first run may take time)"
StTranscribe == "Transcribing audio..."
StLinks      == "Validating links..."
StGenerating == "Generating metadata..."
StQA         == "Final process check..."
StDone       == "Done."
StHardStop   == "Stopped (Hard Stop)."
StError      == "Error"

\* ------------------------------------------------------------------------
\* Exceptions
\* ------------------------------------------------------------------------
NoExc == [msg |-> None, context |-> None]

\* raise with message m while exception cur is propagating (cur = NoExc when
\* none is): the new exception replaces cur and keeps its message as context.
Raise(m, cur) == [msg |-> m, context |-> cur.msg]

EmptyTranscriptMsg == "Transcript is empty. Check the audio track in your file."
MkdtempMsg    == "mkdtemp failed"
CopyMsg       == "copy2 failed"
FfmpegMsg     == "Command failed"
WhisperMsg    == "WhisperModel failed"
TranscribeMsg == "transcribe failed"
HttpClientMsg == "httpx.Client failed"
OpenAIMsg     == "OpenAI request failed."
CleanupMsg    == "TemporaryDirectory cleanup failed"

\* ------------------------------------------------------------------------
\* Texts: sequences of lines, lines: sequences of character runs
\* ------------------------------------------------------------------------
\* Run(k, n): n consecutive characters of kind k.
\*   "chr"    ordinary text: no comma, no dash, no line break, and neither its
\*            first nor its last character is white space
\*   "sp"     white space
\*   "comma"  ","          "emdash", "endash"  the two dashes
\*   "watch"  the ten characters of "watch next", in any letter case
\*   "type"   the four characters of "type", in any letter case
\*   a label  the characters of that title label (k is the label itself)
\*   "ts"     the five characters MM:SS; n is then the number MMSS read off
\*            the four digits, not a length
Run(k, n) == [k |-> k, n |-> n]

RunLen(r) == IF r.k = "ts" THEN 5 ELSE r.n

IsSpace(r) == r.k = "sp"

\* not l.strip()
IsBlank(line) == \A i \in 1..Len(line) : IsSpace(line[i])

\* str.strip()
strip(line) ==
  IF IsBlank(line) THEN << >>
  ELSE LET a == CHOOSE i \in 1..Len(line) :
                  /\ ~IsSpace(line[i])
                  /\ \A h \in 1..(i - 1) : IsSpace(line[h])
           b == CHOOSE i \in 1..Len(line) :
                  /\ ~IsSpace(line[i])
                  /\ \A h \in (i + 1)..Len(line) : IsSpace(line[h])
       IN  SubSeq(line, a, b)

\* len(str)
RECURSIVE strlen(_)
strlen(line) ==
  IF line = << >> THEN 0 ELSE RunLen(Head(line)) + strlen(Tail(line))

\* k in line
HasRun(line, k) == \E i \in 1..Len(line) : line[i].k = k

\* k in txt
TextHas(txt, k) == \E i \in 1..Len(txt) : HasRun(txt[i], k)

\* ------------------------------------------------------------------------
\* Link parsing + validation
\* ------------------------------------------------------------------------
\* A line of the links text: [scheme, rest], its characters up to and after
\* a leading "http://" or "https://" (scheme "" when it has none).
LinkLine(scheme, rest) == [scheme |-> scheme, rest |-> rest]

parse_links(text) ==
  SelectSeq(text, LAMBDA l : l.scheme \in {"http://", "https://"})

\* What the network answers for a URL, by the URL's host part:
\* fault is the message of the exception h.get raises (None when it returns),
\* status the HTTP status, body what the page holds.
Fetch(u) ==
  CASE u.rest = "ok"      -> [fault |-> None, status |-> 200, body |-> "og:title"]
    [] u.rest = "plain"   -> [fault |-> None, status |-> 200, body |-> "none"]
    [] u.rest = "private" -> [fault |-> None, status |-> 200, body |-> "private video"]
    [] u.rest = "gone"    -> [fault |-> None, status |-> 404, body |-> "none"]
    [] OTHER              -> [fault |-> "ConnectError", status |-> 0, body |-> "none"]

\* One iteration of the loop of validate_links.
ValidateOne(u) ==
  LET r == Fetch(u) IN
  IF r.fault # None
    THEN [url |-> u, ok |-> FALSE, title |-> "", reason |-> r.fault]
  ELSE IF r.status # 200
    THEN [url |-> u, ok |-> FALSE, title |-> "", reason |-> "HTTP status"]
  ELSE IF r.body \in {"video unavailable", "private video"}
    THEN [url |-> u, ok |-> FALSE, title |-> "", reason |-> "Unavailable/private"]
  ELSE [url |-> u, ok |-> TRUE,
        title |-> IF r.body = "og:title" THEN "title" ELSE "",
        reason |-> ""]

validate_links(urls) == [i \in 1..Len(urls) |-> ValidateOne(urls[i])]

\* ------------------------------------------------------------------------
\* QA check
\* ------------------------------------------------------------------------
TitleMin == 60
TitleMax == 75
TagsMax  == 500
MaxTimestampLines == 8

required_labels ==
  << "Option 1 (Highest SEO Reach)",
     "Option 2 (Parent High-Intent)",
     "Option 3 (Authority Explainer)" >>

Issue(msg, lab, n) == [msg |-> msg, lab |-> lab, n |-> n]

SeqIf(c, x) == IF c THEN << x >> ELSE << >>

\* int(m) * 60 + int(s) of the digits MM:SS, given as the number MMSS
_mmss_to_sec(x) == (x \div 100) * 60 + (x % 100)

\* for lab in required_labels: if lab not in txt
RECURSIVE MissingLabelIssues(_, _)
MissingLabelIssues(txt, labs) ==
  IF labs = << >> THEN << >>
  ELSE SeqIf(~TextHas(txt, Head(labs)),
             Issue("Missing title label", Head(labs), 0))
       \o MissingLabelIssues(txt, Tail(labs))

\* line.strip() == lab
IsLabelLine(line, lab) ==
  LET t == strip(line) IN Len(t) = 1 /\ t[1].k = lab

\* for i, line in enumerate(lines): if line.strip() == lab: the index of the
\* first such line from i on, 0 when there is none
RECURSIVE FirstLabelLine(_, _, _)
FirstLabelLine(lines, lab, i) ==
  IF i > Len(lines) THEN 0
  ELSE IF IsLabelLine(lines[i], lab) THEN i
  ELSE FirstLabelLine(lines, lab, i + 1)

\* while j < len(lines) and not lines[j].strip(): j += 1
\* (the index of the first non-blank line from j on, Len(lines) + 1 when
\* there is none)
RECURSIVE SkipBlank(_, _)
SkipBlank(lines, j) ==
  IF j > Len(lines) THEN j
  ELSE IF ~IsBlank(lines[j]) THEN j
  ELSE SkipBlank(lines, j + 1)

\* A plausible slip: the limits themselves are refused.
TitleLengthBad_exclusive(L) == L <= TitleMin \/ L >= TitleMax

\* if L < 60 or L > 75
TitleLengthBad(L) == L < TitleMin \/ L > TitleMax

\* The body of the title-length loop for one label: the first line equal to
\* the label, then the next non-blank line after it.
TitleIssue(lines, lab) ==
  LET idx == FirstLabelLine(lines, lab, 1) IN
  IF idx = 0 THEN << >>
  ELSE
    LET j == SkipBlank(lines, idx + 1) IN
    IF j > Len(lines)
      THEN << Issue("No title text found after", lab, 0) >>
    ELSE
      LET L == strlen(strip(lines[j])) IN
      SeqIf(TitleLengthBad(L),
            Issue("Title length after (must be 60-75)", lab, L))

RECURSIVE TitleIssues(_, _)
TitleIssues(lines, labs) ==
  IF labs = << >> THEN << >>
  ELSE TitleIssue(lines, Head(labs)) \o TitleIssues(lines, Tail(labs))

\* l.strip().lower().startswith(word), word one of "watch", "type"
StartsWith(line, word) ==
  LET t == strip(line) IN t # << >> /\ t[1].k = word

has_watch_next(lines) ==
  \E i \in 1..Len(lines) : StartsWith(lines[i], "watch")

\* A plausible slip: every validated link is counted, usable or not.
valid_count_all(validated_links) == Len(validated_links)

\* sum(1 for x in (validated_links or []) if x.get("ok"))
valid_count(validated_links) ==
  Cardinality({i \in 1..Len(validated_links) : validated_links[i].ok})

WatchNextIssues(lines, link_mode, validated_links) ==
  SeqIf(link_mode # "provided" /\ has_watch_next(lines),
        Issue("Watch Next present but links were not provided.", "", 0))
  \o
  SeqIf(link_mode = "provided" /\ valid_count(validated_links) = 0
          /\ has_watch_next(lines),
        Issue("Watch Next present but no valid links remained.", "", 0))

\* non_empty[-1]: the index of the last non-blank line up to i, 0 when there
\* is none
RECURSIVE LastNonBlank(_, _)
LastNonBlank(lines, i) ==
  IF i = 0 THEN 0
  ELSE IF ~IsBlank(lines[i]) THEN i
  ELSE LastNonBlank(lines, i - 1)

\* The tags line: the last non-blank line.
TagsIssues(lines) ==
  LET at == LastNonBlank(lines, Len(lines)) IN
  IF at = 0 THEN << >>
  ELSE
    LET last == strip(lines[at]) IN
    IF ~HasRun(last, "comma")
      THEN << Issue("Tags line not detected (expected one comma-separated line at the end).", "", 0) >>
    ELSE SeqIf(strlen(last) > TagsMax,
               Issue("Tags line is chars (must be <= 500).", "", strlen(last)))

\* for idx, line in enumerate(lines): if line.strip().lower().startswith("type")
\* (the index of the first such line from i on, 0 when there is none)
RECURSIVE FirstTypeLine(_, _)
FirstTypeLine(lines, i) ==
  IF i > Len(lines) THEN 0
  ELSE IF StartsWith(lines[i], "type") THEN i
  ELSE FirstTypeLine(lines, i + 1)

\* re.match(r"^(\d{2}:\d{2})\s+.+", line.strip())
IsTimestampLine(line) ==
  LET t == strip(line) IN
  Len(t) >= 3 /\ t[1].k = "ts" /\ t[2].k = "sp"

\* for line in lines[i:]: the timestamps of the matching lines, in order,
\* each as its number MMSS
RECURSIVE CollectTs(_, _)
CollectTs(lines, i) ==
  IF i > Len(lines) THEN << >>
  ELSE SeqIf(IsTimestampLine(lines[i]), strip(lines[i])[1].n)
       \o CollectTs(lines, i + 1)

Timestamps(lines) ==
  LET type_idx == FirstTypeLine(lines, 1) IN
  IF type_idx = 0 THEN << >> ELSE CollectTs(lines, type_idx + 1)

\* A plausible slip: a repeated timestamp is accepted.
OutOfOrder_decrease(a, b) == a > b

\* secs[i] >= secs[i + 1]
OutOfOrder(a, b) == a >= b

\* any(secs[i] >= secs[i + 1] for i in range(len(secs) - 1))
RECURSIVE NotIncreasing(_, _)
NotIncreasing(ts, i) ==
  IF i >= Len(ts) THEN FALSE
  ELSE \/ OutOfOrder(_mmss_to_sec(ts[i]), _mmss_to_sec(ts[i + 1]))
       \/ NotIncreasing(ts, i + 1)

TimestampIssuesOf(ts) ==
  IF ts = << >> THEN << >>
  ELSE
    SeqIf(NotIncreasing(ts, 1),
          Issue("Education Problems timestamps are not strictly increasing or contain duplicates.", "", 0))
    \o
    SeqIf(Len(ts) > MaxTimestampLines,
          Issue("Education Problems has lines (must be up to 8 when justified).", "", Len(ts)))

TimestampIssues(lines) == TimestampIssuesOf(Timestamps(lines))

qa_check(output_text, link_mode, validated_links) ==
  SeqIf(TextHas(output_text, "emdash") \/ TextHas(output_text, "endash"),
        Issue("Contains an em dash/en dash.", "", 0))
  \o MissingLabelIssues(output_text, required_labels)
  \o TitleIssues(output_text, required_labels)
  \o WatchNextIssues(output_text, link_mode, validated_links)
  \o TagsIssues(output_text)
  \o TimestampIssues(output_text)

\* ------------------------------------------------------------------------
\* Texts the generation service returns and links texts a client submits
\* ------------------------------------------------------------------------
\* The fixed message of the hard stop (three lines of 34, 52 and 184 chars).
HardStopMetadata ==
  << << Run("chr", 34) >>, << Run("chr", 52) >>, << Run("chr", 184) >> >>

\* A text that breaks no QA rule.
OutClean ==
  << << Run(required_labels[1], 28) >>, << Run("chr", 60) >>,
     << Run(required_labels[2], 29) >>, << Run("chr", 75) >>,
     << Run(required_labels[3], 30) >>, << >>, << Run("chr", 66) >>,
     << Run("type", 4), Run("chr", 9) >>,
     << Run("ts", 10), Run("sp", 1), Run("chr", 12) >>,
     << Run("ts", 115), Run("sp", 1), Run("chr", 7) >>,
     << Run("chr", 5), Run("comma", 1), Run("sp", 1), Run("chr", 6) >> >>

\* A text that breaks several.
OutFlawed ==
  << << Run(required_labels[1], 28) >>, << Run("chr", 59) >>,
     << Run("chr", 7), Run("emdash", 1), Run("chr", 3) >>,
     << Run("watch", 10) >>,
     << Run("chr", 20) >> >>

\* "" is what the first call protocol returns for a response without text.
Outputs == { << >>, OutClean, OutFlawed }

\* Lines a client may type into the links field.
LinkLinePool ==
  { LinkLine("https://", "ok"), LinkLine("http://", "down"),
    LinkLine("", "see the sheet") }

\* The links texts of at most n lines.
RECURSIVE LinksTexts(_)
LinksTexts(n) ==
  IF n = 0 THEN { << >> }
  ELSE LET shorter == LinksTexts(n - 1) IN
       shorter \cup { Append(t, l) : t \in shorter, l \in LinkLinePool }

\* ------------------------------------------------------------------------
\* Jobs
\* ------------------------------------------------------------------------
\* The record api_start stores for a new job.
InitialJob(job_id) ==
  [ job_id     |-> job_id,
    progress   |-> 1,
    stage      |-> StQueued,
    done       |-> FALSE,
    error      |-> None,
    transcript |-> << >>,
    metadata   |-> << >>,
    qa_issues  |-> << >>,
    qa_pass    |-> None ]

\* dict.update(kwargs)
DictUpdate(d, kwargs) ==
  [f \in DOMAIN d \cup DOMAIN kwargs |->
     IF f \in DOMAIN kwargs THEN kwargs[f] ELSE d[f]]

\* A plausible slip: the update is applied to every record of the registry.
update_job_all(js, job_id, kwargs) ==
  [k \in DOMAIN js |-> DictUpdate(js[k], kwargs)]

\* update_job, as a function of the registry js (run under jobs_lock).
update_job(js, job_id, kwargs) ==
  IF job_id \in DOMAIN js
    THEN [js EXCEPT ![job_id] = DictUpdate(js[job_id], kwargs)]
    ELSE js

\* if link_mode == "not_provided"
IsHardStop_other(link_mode) == link_mode = "not_available"

IsHardStop(link_mode) == link_mode = "not_provided"

HardStopUpdate ==
  [ progress   |-> 100,
    stage      |-> StHardStop,
    done       |-> TRUE,
    transcript |-> << >>,
    metadata   |-> HardStopMetadata,
    qa_pass    |-> "True",
    qa_issues  |-> << >> ]

\* A plausible slip: the results are published without the termination.
DoneUpdate_results_only(transcript, metadata) ==
  [ progress |-> 100, stage |-> StDone,
    transcript |-> transcript, metadata |-> metadata ]

\* update_job(job_id, progress=100, stage="Done.", done=True, ...)
DoneUpdate(transcript, metadata) ==
  [ progress |-> 100, stage |-> StDone, done |-> TRUE,
    transcript |-> transcript, metadata |-> metadata ]

\* A plausible slip: the handler records the error but not the termination.
ErrorUpdate_not_done(e) ==
  [ error |-> e, stage |-> StError, progress |-> 100 ]

\* The update of the except clause; e is str(e).
ErrorUpdate(e) ==
  [ done |-> TRUE, error |-> e, stage |-> StError, progress |-> 100 ]

\* A plausible slip: a QA run that finds violations fails the job.
QaUpdate_fails(issues) ==
  IF Len(issues) = 0
    THEN [ qa_issues |-> issues, qa_pass |-> "True" ]
    ELSE [ qa_issues |-> issues, qa_pass |-> "False", done |-> TRUE,
           error |-> "QA failed", stage |-> StError, progress |-> 100 ]

\* A plausible slip: the verdict is written without the list of violations.
QaUpdate_pass_only(issues) ==
  [ qa_pass |-> IF Len(issues) = 0 THEN "True" ELSE "False" ]

\* update_job(job_id, qa_issues=issues, qa_pass=(len(issues) == 0))
QaUpdate(issues) ==
  [ qa_issues |-> issues,
    qa_pass   |-> IF Len(issues) = 0 THEN "True" ELSE "False" ]

\* f"{int(s.start//60):02d}:{int(s.start%60):02d} {s.text.strip()}"
TranscriptLine(s) ==
  [ mm |-> s.start \div 60, ss |-> s.start % 60, text |-> s.text ]

Min(a, b) == IF a <= b THEN a ELSE b

\* The pairs (end, dur) of the modelled segments and durations for which
\* 55 * (float(end) / dur), evaluated in IEEE-754 doubles as Python does,
\* lies just below the integer 55 * end / dur.
FloatShortfall == { <<3, 11>>, <<6, 11>> }

\* 20 + int(55 * min(1.0, float(s.end) / dur)), for dur > 0
TranscribePct(end, dur) ==
  20 + (55 * Min(end, dur)) \div dur
     - (IF <<end, dur>> \in FloatShortfall THEN 1 ELSE 0)

\* A plausible slip: every segment writes its progress.
ShouldAdvance_always(p, last_pct) == TRUE

\* if p > last_pct
ShouldAdvance(p, last_pct) == p > last_pct

\* A plausible slip: the links are validated whatever the link mode.
ShouldValidate_any_mode(link_mode, urls) == urls # << >>

\* if (link_mode == "provided" and urls)
ShouldValidate(link_mode, urls) == link_mode = "provided" /\ urls # << >>

\* A plausible slip: a failed deletion is reported on the job.
UnlinkFailed_reported(js, job_id) ==
  update_job(js, job_id, ErrorUpdate("unlink failed"))

\* except Exception: pass, around Path(uploaded_path).unlink
UnlinkFailed(js, job_id) == js

\* ------------------------------------------------------------------------
\* State
\* ------------------------------------------------------------------------
VARIABLES
  jobs,     \* the registry: job id -> job record
  th,       \* per job id: the locals and the position of its worker thread
  whisper,  \* _whisper: 0 for None, else the number of the instance stored
  calls,    \* history: per job id, how often each collaborator was invoked
            \* (fetch: how many URLs validate_links fetched; unlink_raised:
            \* how often the deletion of the upload raised)
  log,      \* history: per job id, update_job calls that set done=True, and
            \* update_job calls made when the record already had done=True
  reg,      \* the registry seen at the grain of jobs_lock: who holds the lock,
            \* where each thread stands in its critical section (Registry)
  unit      \* one call of a component run on its own: call_openai_metadata,
            \* validate_links or qa_check (Generation, Link validation, QA)

vars == << jobs, th, whisper, calls, log, reg, unit >>

\* The variables of the pipeline.
pipeline == << th, whisper, calls, log >>

\* th[j] holds the locals of worker that are still to be read; a local that no
\* later statement reads is set back to its value here.
NewThread ==
  [ pc        |-> "idle",
    link_mode |-> None,
    dur       |-> 0,
    last_pct  |-> 0,
    lines     |-> << >>,
    model     |-> 0,
    validated |-> << >>,
    metadata  |-> << >>,
    exc       |-> NoExc ]

NoCalls ==
  [ extract |-> 0, transcribe |-> 0, validate |-> 0, fetch |-> 0,
    generate |-> 0, qa |-> 0, unlink |-> 0, unlink_raised |-> 0 ]

Init ==
  /\ jobs = << >>
  /\ th = [j \in JobIds |-> NewThread]
  /\ whisper = 0
  /\ calls = [j \in JobIds |-> NoCalls]
  /\ log = [j \in JobIds |-> [done_sets |-> 0, after_done |-> 0]]
  /\ reg = None
  /\ unit = None

\* ------------------------------------------------------------------------
\* Building blocks of the actions
\* ------------------------------------------------------------------------
\* The worker of job j calls update_job(j, **kwargs).
Update(j, kwargs) ==
  /\ jobs' = update_job(jobs, j, kwargs)
  /\ log' = [log EXCEPT
       ![j].done_sets  = IF "done" \in DOMAIN kwargs /\ kwargs.done
                           THEN @ + 1 ELSE @,
       ![j].after_done = IF j \in DOMAIN jobs /\ jobs[j].done
                           THEN @ + 1 ELSE @]

NoUpdate == UNCHANGED << jobs, log >>

Goto(j, pc) == th' = [th EXCEPT ![j].pc = pc]

\* The worker of job j raises an exception with message m inside the block
\* of the temporary directory.
Raised(t, pc, m) ==
  [NewThread EXCEPT !.pc = pc, !.link_mode = t.link_mode,
                    !.exc = Raise(m, t.exc)]

RaiseInWith(j, m) == th' = [th EXCEPT ![j] = Raised(@, "with_unwind", m)]

Called(j, what) == calls' = [calls EXCEPT ![j][what] = @ + 1]

\* ------------------------------------------------------------------------
\* api_start
\* ------------------------------------------------------------------------
\* A plausible slip: the thread is started without the record being stored.
InsertJob_skipped(js, j) == js

\* jobs[job_id] = {...}
InsertJob(js, j) ==
  [k \in DOMAIN js \cup {j} |-> IF k = j THEN InitialJob(j) ELSE js[k]]

\* jobs[job_id] = {...} under jobs_lock; j is the fresh uuid.
api_start_create(j) ==
  /\ th[j].pc = "idle"
  /\ \E link_mode \in LinkModes :
       th' = [th EXCEPT ![j].pc = "created", ![j].link_mode = link_mode]
  /\ jobs' = InsertJob(jobs, j)
  /\ UNCHANGED << reg, unit, whisper, calls, log >>

\* t = threading.Thread(target=worker, ...); t.start()
api_start_thread(j) ==
  /\ th[j].pc = "created"
  /\ Goto(j, "start")
  /\ UNCHANGED << reg, unit, jobs, whisper, calls, log >>

\* ------------------------------------------------------------------------
\* worker
\* ------------------------------------------------------------------------
\* The hard stop, or the first update.
worker_start(j) ==
  /\ th[j].pc = "start"
  /\ IF IsHardStop(th[j].link_mode)
       THEN Update(j, HardStopUpdate) /\ Goto(j, "finally")
       ELSE Update(j, [progress |-> 5, stage |-> StExtracting])
            /\ Goto(j, "tempdir")
  /\ UNCHANGED << reg, unit, whisper, calls >>

\* tempfile.TemporaryDirectory() raises: no block is entered.
worker_tempdir_fails(j) ==
  /\ th[j].pc = "tempdir"
  /\ th' = [th EXCEPT ![j] = Raised(@, "except", MkdtempMsg)]
  /\ NoUpdate
  /\ UNCHANGED << reg, unit, whisper, calls >>

\* shutil.copy2 raises.
worker_copy_fails(j) ==
  /\ th[j].pc = "tempdir"
  /\ RaiseInWith(j, CopyMsg)
  /\ NoUpdate
  /\ UNCHANGED << reg, unit, whisper, calls >>

\* extract_audio_wav_16k_mono raises (ffmpeg exits non-zero).
worker_extract_fails(j) ==
  /\ th[j].pc = "tempdir"
  /\ Called(j, "extract")
  /\ RaiseInWith(j, FfmpegMsg)
  /\ NoUpdate
  /\ UNCHANGED << reg, unit, whisper >>

\* Audio extracted, duration probed, second update.
worker_extract(j) ==
  /\ th[j].pc = "tempdir"
  /\ Called(j, "extract")
  /\ \E dur \in Durations :
       th' = [th EXCEPT ![j].pc = "get_whisper", ![j].dur = dur]
  /\ Update(j, [progress |-> 15, stage |-> StLoading])
  /\ UNCHANGED << reg, unit, whisper >>

\* get_whisper: if _whisper is None
worker_get_whisper(j) ==
  /\ th[j].pc = "get_whisper"
  /\ Goto(j, IF whisper = 0 THEN "whisper_new" ELSE "whisper_return")
  /\ NoUpdate
  /\ UNCHANGED << reg, unit, whisper, calls >>

\* get_whisper: _whisper = WhisperModel(...)
worker_whisper_new(j) ==
  /\ th[j].pc = "whisper_new"
  /\ whisper' = whisper + 1
  /\ Goto(j, "whisper_return")
  /\ NoUpdate
  /\ UNCHANGED << reg, unit, calls >>

\* get_whisper: WhisperModel(...) raises.
worker_whisper_fails(j) ==
  /\ th[j].pc = "whisper_new"
  /\ RaiseInWith(j, WhisperMsg)
  /\ NoUpdate
  /\ UNCHANGED << reg, unit, whisper, calls >>

\* get_whisper: return _whisper, read into the local model.
worker_whisper_return(j) ==
  /\ th[j].pc = "whisper_return"
  /\ th' = [th EXCEPT ![j].pc = "transcribing", ![j].model = whisper]
  /\ NoUpdate
  /\ UNCHANGED << reg, unit, whisper, calls >>

\* update_job(job_id, progress=20, stage="Transcribing audio...")
worker_transcribing(j) ==
  /\ th[j].pc = "transcribing"
  /\ Goto(j, "transcribe")
  /\ Update(j, [progress |-> 20, stage |-> StTranscribe])
  /\ UNCHANGED << reg, unit, whisper, calls >>

\* model.transcribe(...) returns the lazy sequence of segments.
worker_transcribe(j) ==
  /\ th[j].pc = "transcribe"
  /\ Called(j, "transcribe")
  /\ th' = [th EXCEPT ![j].pc = "segments",
                      ![j].lines = << >>, ![j].last_pct = 20]
  /\ NoUpdate
  /\ UNCHANGED << reg, unit, whisper >>

\* model.transcribe(...) raises.
worker_transcribe_fails(j) ==
  /\ th[j].pc = "transcribe"
  /\ Called(j, "transcribe")
  /\ RaiseInWith(j, TranscribeMsg)
  /\ NoUpdate
  /\ UNCHANGED << reg, unit, whisper >>

\* One iteration of "for s in segments".
worker_segment(j) ==
  /\ th[j].pc = "segments"
  /\ Len(th[j].lines) < MaxSegs
  /\ \E s \in SegPool :
       LET dur == th[j].dur
           p   == TranscribePct(s.end, dur)
           adv == dur > 0 /\ ShouldAdvance(p, th[j].last_pct)
       IN
       /\ th' = [th EXCEPT
            ![j].lines    = Append(@, TranscriptLine(s)),
            ![j].last_pct = IF adv THEN p ELSE @]
       /\ IF adv
            THEN Update(j, [progress |-> p, stage |-> StTranscribe])
            ELSE NoUpdate
  /\ UNCHANGED << reg, unit, whisper, calls >>

\* The sequence of segments raises while it is iterated.
worker_segment_fails(j) ==
  /\ th[j].pc = "segments"
  /\ RaiseInWith(j, TranscribeMsg)
  /\ NoUpdate
  /\ UNCHANGED << reg, unit, whisper, calls >>

\* The segments are exhausted: the empty-transcript check, or the update
\* that opens link validation.
worker_segments_end(j) ==
  /\ th[j].pc = "segments"
  /\ IF th[j].lines = << >>
       THEN RaiseInWith(j, EmptyTranscriptMsg) /\ NoUpdate
       ELSE th' = [th EXCEPT ![j].pc = "links",
                             ![j].dur = 0, ![j].last_pct = 0]
            /\ Update(j, [progress |-> 80, stage |-> StLinks])
  /\ UNCHANGED << reg, unit, whisper, calls >>

\* parse_links, validate_links when there is something to validate, then the
\* update that opens generation.
worker_links(j) ==
  /\ th[j].pc = "links"
  /\ \E links_text \in LinksTexts(MaxUrls) :
       LET urls == parse_links(links_text)
           run  == ShouldValidate(th[j].link_mode, urls)
       IN
       /\ th' = [th EXCEPT
            ![j].pc = "generate",
            ![j].validated = IF run THEN validate_links(urls) ELSE << >>]
       /\ IF run
            THEN calls' = [calls EXCEPT ![j].validate = @ + 1,
                                        ![j].fetch = @ + Len(urls)]
            ELSE UNCHANGED calls
  /\ Update(j, [progress |-> 88, stage |-> StGenerating])
  /\ UNCHANGED << reg, unit, whisper >>

\* httpx.Client(...) raises in validate_links, outside its per-URL try: the
\* links text held a URL.
worker_links_fails(j) ==
  /\ th[j].pc = "links"
  /\ \E links_text \in LinksTexts(MaxUrls) :
       ShouldValidate(th[j].link_mode, parse_links(links_text))
  /\ Called(j, "validate")
  /\ RaiseInWith(j, HttpClientMsg)
  /\ NoUpdate
  /\ UNCHANGED << reg, unit, whisper >>

\* call_openai_metadata returns a text, then the update that opens QA.
worker_generate(j) ==
  /\ th[j].pc = "generate"
  /\ Called(j, "generate")
  /\ \E text \in Outputs :
       th' = [th EXCEPT ![j].pc = "qa", ![j].metadata = text]
  /\ Update(j, [progress |-> 96, stage |-> StQA])
  /\ UNCHANGED << reg, unit, whisper >>

\* load_runtime_config or call_openai_metadata raises.
worker_generate_fails(j) ==
  /\ th[j].pc = "generate"
  /\ Called(j, "generate")
  /\ RaiseInWith(j, OpenAIMsg)
  /\ NoUpdate
  /\ UNCHANGED << reg, unit, whisper >>

\* issues = qa_check(...); update_job(job_id, qa_issues=..., qa_pass=...)
worker_qa(j) ==
  /\ th[j].pc = "qa"
  /\ Called(j, "qa")
  /\ \E issues \in { qa_check(th[j].metadata, th[j].link_mode,
                                th[j].validated) } :
       Update(j, QaUpdate(issues))
  /\ th' = [th EXCEPT ![j].pc = "done", ![j].validated = << >>]
  /\ UNCHANGED << reg, unit, whisper >>

\* update_job(job_id, progress=100, stage="Done.", done=True, ...)
worker_done(j) ==
  /\ th[j].pc = "done"
  /\ Update(j, DoneUpdate(th[j].lines, th[j].metadata))
  /\ th' = [th EXCEPT ![j].pc = "with_exit", ![j].model = 0,
                      ![j].lines = << >>, ![j].metadata = << >>]
  /\ UNCHANGED << reg, unit, whisper, calls >>

\* The block of the temporary directory is left and the directory removed,
\* at the end of the block ("with_exit") or with an exception propagating
\* ("with_unwind").
worker_cleanup(j) ==
  /\ th[j].pc \in {"with_exit", "with_unwind"}
  /\ Goto(j, IF th[j].pc = "with_exit" THEN "finally" ELSE "except")
  /\ NoUpdate
  /\ UNCHANGED << reg, unit, whisper, calls >>

\* Removing the directory raises: the exception leaves the block in place of
\* the one that was propagating, if any.
worker_cleanup_fails(j) ==
  /\ th[j].pc \in {"with_exit", "with_unwind"}
  /\ th' = [th EXCEPT ![j] = Raised(@, "except", CleanupMsg)]
  /\ NoUpdate
  /\ UNCHANGED << reg, unit, whisper, calls >>

\* except Exception as e: update_job(job_id, done=True, error=str(e), ...)
worker_except(j) ==
  /\ th[j].pc = "except"
  /\ Update(j, ErrorUpdate(th[j].exc.msg))
  /\ Goto(j, "finally")
  /\ UNCHANGED << reg, unit, whisper, calls >>

\* finally: Path(uploaded_path).unlink(missing_ok=True), which may raise.
worker_finally(j) ==
  /\ th[j].pc = "finally"
  /\ \E deleted \in BOOLEAN :
       /\ jobs' = IF deleted THEN jobs ELSE UnlinkFailed(jobs, j)
       /\ calls' = [calls EXCEPT
            ![j].unlink = @ + 1,
            ![j].unlink_raised = IF deleted THEN @ ELSE @ + 1]
  /\ Goto(j, "exit")
  /\ UNCHANGED << reg, unit, whisper, log >>

worker(j) ==
  \/ worker_start(j)
  \/ worker_tempdir_fails(j)
  \/ worker_copy_fails(j)
  \/ worker_extract_fails(j)
  \/ worker_extract(j)
  \/ worker_get_whisper(j)
  \/ worker_whisper_new(j)
  \/ worker_whisper_fails(j)
  \/ worker_whisper_return(j)
  \/ worker_transcribing(j)
  \/ worker_transcribe(j)
  \/ worker_transcribe_fails(j)
  \/ worker_segment(j)
  \/ worker_segment_fails(j)
  \/ worker_segments_end(j)
  \/ worker_links(j)
  \/ worker_links_fails(j)
  \/ worker_generate(j)
  \/ worker_generate_fails(j)
  \/ worker_qa(j)
  \/ worker_done(j)
  \/ worker_cleanup(j)
  \/ worker_cleanup_fails(j)
  \/ worker_except(j)
  \/ worker_finally(j)

Next ==
  \E j \in JobIds :
    \/ api_start_create(j)
    \/ api_start_thread(j)
    \/ worker(j)

Spec == Init /\ [][Next]_vars

\* One job on its own: the handler of api_start and the worker it starts keep
\* being scheduled, and every external call the worker makes returns or
\* raises.
NextOne ==
  \/ api_start_create(1)
  \/ api_start_thread(1)
  \/ worker(1)

FairSpec ==
  /\ Init
  /\ [][NextOne]_vars
  /\ WF_vars(api_start_thread(1))
  /\ WF_vars(worker(1))

\* ------------------------------------------------------------------------
\* Registry: jobs and jobs_lock at the grain of the lock
\* ------------------------------------------------------------------------
\* Three threads share the registry: the handler of api_start that creates
\* the record of job 1, the worker of job 1 issuing its update_job calls, and
\* a handler of api_status polling job 1.  dict.update is taken to store the
\* fields of kwargs one at a time, in any order.
RegThreads == {"submit", "work", "poll"}

\* The update_job calls of worker, in program order, on its paths: the hard
\* stop, a fault while extracting, and the full pipeline, ended by the Done
\* update or followed by the update of the except clause.
PipelineUpdates ==
  << [progress |-> 5,  stage |-> StExtracting],
     [progress |-> 15, stage |-> StLoading],
     [progress |-> 20, stage |-> StTranscribe],
     [progress |-> 80, stage |-> StLinks],
     [progress |-> 88, stage |-> StGenerating],
     [progress |-> 96, stage |-> StQA],
     QaUpdate(qa_check(OutFlawed, "provided", << >>)),
     DoneUpdate(<< TranscriptLine([start |-> 65, end |-> 3, text |-> "speech"]) >>,
                OutFlawed) >>

\* The full pipeline with a generated text that breaks no QA rule.
CleanUpdates ==
  [PipelineUpdates EXCEPT
     ![7] = QaUpdate(qa_check(OutClean, "checked_no_links", << >>)),
     ![8] = DoneUpdate(@.transcript, OutClean)]

UpdatePaths ==
  { << HardStopUpdate >>,
    << PipelineUpdates[1], ErrorUpdate(CopyMsg) >>,
    PipelineUpdates,
    CleanUpdates,
    Append(PipelineUpdates, ErrorUpdate(CleanupMsg)) }

\* The answers of api_status: the job record with status 200, or the error
\* body with status 404.  NoAnswer stands for "no call has returned yet".
UnknownJob == [error |-> "Unknown job id"]

NoAnswer == [code |-> 0, body |-> UnknownJob]

\* A plausible slip: a critical section is entered without taking the lock.
LockFree_ignored(holder) == TRUE

\* jobs_lock can be acquired.
LockFree(holder) == holder = None

\* reg.holder: the thread inside "with jobs_lock"; reg.pc: where each thread
\* stands ("out" of the lock, "in" it, for the submitter "start" between the
\* release of the lock and t.start(), for the worker "unborn" before
\* t.start()); reg.todo: the update_job calls the worker has still to make;
\* reg.pend: the fields of the current call not yet stored; reg.snap: what the
\* last api_status call returned; reg.whole: history, the record of job 1 as
\* it stood after creation and after each completed update_job call.
RegistryInit ==
  /\ jobs = << >>
  /\ reg = [ holder |-> None,
             pc     |-> [t \in RegThreads |->
                           IF t = "work" THEN "unborn" ELSE "out"],
             todo   |-> << >>,
             pend   |-> {},
             snap   |-> NoAnswer,
             whole  |-> {} ]
  /\ unit = None
  /\ th = [j \in JobIds |-> NewThread]
  /\ whisper = 0
  /\ calls = [j \in JobIds |-> NoCalls]
  /\ log = [j \in JobIds |-> [done_sets |-> 0, after_done |-> 0]]

\* "with jobs_lock:" entered by thread t.
jobs_lock_acquire(t) ==
  /\ reg.pc[t] = "out"
  /\ LockFree(reg.holder)
  /\ t = "submit" => 1 \notin DOMAIN jobs
  /\ t = "work" => reg.todo # << >>
  /\ reg' = [reg EXCEPT
       !.holder = t,
       !.pc[t]  = "in",
       !.pend   = IF t = "work" /\ 1 \in DOMAIN jobs
                    THEN DOMAIN Head(reg.todo) ELSE {}]
  /\ UNCHANGED jobs
  /\ UNCHANGED pipeline
  /\ UNCHANGED unit

\* api_start: jobs[job_id] = {...}, the lock released; the thread is not
\* started yet.
registry_create ==
  /\ reg.pc["submit"] = "in"
  /\ jobs' = InsertJob(jobs, 1)
  /\ reg' = [reg EXCEPT
       !.holder = IF @ = "submit" THEN None ELSE @,
       !.pc["submit"] = "start",
       !.whole = @ \cup {InitialJob(1)}]
  /\ UNCHANGED pipeline
  /\ UNCHANGED unit

\* api_start: t = threading.Thread(target=worker, ...); t.start(), outside
\* the lock.
registry_thread_start ==
  /\ reg.pc["submit"] = "start"
  /\ \E path \in UpdatePaths :
       reg' = [reg EXCEPT
         !.pc["submit"] = "out",
         !.pc["work"] = "out",
         !.todo = path]
  /\ UNCHANGED jobs
  /\ UNCHANGED pipeline
  /\ UNCHANGED unit

\* update_job: jobs[job_id].update(kwargs) stores one more field.
registry_store ==
  /\ reg.pc["work"] = "in"
  /\ reg.pend # {}
  /\ \E f \in reg.pend :
       /\ jobs' = [jobs EXCEPT ![1][f] = Head(reg.todo)[f]]
       /\ reg' = [reg EXCEPT !.pend = @ \ {f}]
  /\ UNCHANGED pipeline
  /\ UNCHANGED unit

\* update_job: every field is stored (or the id is unknown), the lock is
\* released.
registry_updated ==
  /\ reg.pc["work"] = "in"
  /\ reg.pend = {}
  /\ reg' = [reg EXCEPT
       !.holder = IF @ = "work" THEN None ELSE @,
       !.pc["work"] = "out",
       !.todo = Tail(@),
       !.whole = IF 1 \in DOMAIN jobs THEN @ \cup {jobs[1]} ELSE @]
  /\ UNCHANGED jobs
  /\ UNCHANGED pipeline
  /\ UNCHANGED unit

\* api_status: j = jobs.get(job_id); the 404 answer or jsonify(j), the lock
\* released.
api_status ==
  /\ reg.pc["poll"] = "in"
  /\ reg' = [reg EXCEPT
       !.holder = IF @ = "poll" THEN None ELSE @,
       !.pc["poll"] = "out",
       !.snap = IF 1 \in DOMAIN jobs
                  THEN [code |-> 200, body |-> jobs[1]]
                  ELSE [code |-> 404, body |-> UnknownJob]]
  /\ UNCHANGED jobs
  /\ UNCHANGED pipeline
  /\ UNCHANGED unit

RegistryNext ==
  \/ \E t \in RegThreads : jobs_lock_acquire(t)
  \/ registry_create
  \/ registry_thread_start
  \/ registry_store
  \/ registry_updated
  \/ api_status

RegistrySpec == RegistryInit /\ [][RegistryNext]_vars

\* ------------------------------------------------------------------------
\* Generation: one call of call_openai_metadata
\* ------------------------------------------------------------------------
\* The longest OPENAI_FALLBACK_MODELS setting, in comma-separated entries.
MaxFallbacks == 2

\* OPENAI_MODEL settings.
Primaries == {"gpt-5.2-thinking", "gpt-5-mini"}

\* An entry of the comma-separated OPENAI_FALLBACK_MODELS setting: a model
\* name, with white space around it or not ("" with white space: a blank
\* entry).
Entry(name, padded) == [name |-> name, padded |-> padded]

FallbackEntries ==
  { Entry("", TRUE), Entry("gpt-5.2-thinking", FALSE),
    Entry("gpt-5-mini", FALSE), Entry("gpt-4o", TRUE) }

\* The settings of at most n entries.
RECURSIVE FallbackSettings(_)
FallbackSettings(n) ==
  IF n = 0 THEN { << >> }
  ELSE LET shorter == FallbackSettings(n - 1) IN
       shorter \cup { Append(f, e) : f \in shorter, e \in FallbackEntries }

\* OPENAI_API_KEY settings, stripped.
ApiKeys == {"", "sk-key"}

\* [m.strip() for m in (...).split(",") if m.strip()]
RECURSIVE fallbacks(_)
fallbacks(setting) ==
  IF setting = << >> THEN << >>
  ELSE SeqIf(Head(setting).name # "", Head(setting).name)
       \o fallbacks(Tail(setting))

\* [primary] + [m for m in fallbacks if m != primary]
models_to_try(primary, setting) ==
  << primary >> \o SelectSeq(fallbacks(setting), LAMBDA m : m # primary)

\* Texts of the generation service: the body and the model that wrote it.
\* body None: the answer carries no text; " ": white space only; " text ":
\* text with white space around it.
Text(body, by) == [body |-> body, by |-> by]

EmptyText == Text("", "")

\* The texts a call on model m may answer with.
Answers(m) ==
  { Text(None, ""), EmptyText, Text(" ", ""), Text("text", m),
    Text(" text ", m) }

\* (text or "").strip()
StripOrEmpty(text) ==
  IF text.body \in {None, "", " "} THEN EmptyText
  ELSE IF text.body = " text " THEN Text("text", text.by)
  ELSE text

\* str(e) of the exceptions a call of the service may raise.
ScopeError ==
  "You have insufficient permissions for this operation. Missing scopes: api.responses.write"

ServiceErrors == { "Connection error.", ScopeError }

MissingKeyMsg ==
  "OPENAI_API_KEY is missing. Go to Settings and save your API key."

EmptyChatMsg == "Empty response from chat.completions."

\* A plausible slip: the permission error is handled like any other.
HasScopeSignature_never(err) == FALSE

\* "api.responses.write" in last_err
HasScopeSignature(err) == err = ScopeError

\* A plausible slip: the first pass, like the second, goes on after an empty
\* answer.
ResponsesReturns_nonempty(text) == StripOrEmpty(text) # EmptyText

\* return (text or "").strip(): the first pass returns whatever it got.
ResponsesReturns(text) == TRUE

\* A plausible slip: the second pass returns whatever it got.
ChatReturns_any(out) == TRUE

\* if out: return out
ChatReturns(out) == out # EmptyText

\* A plausible slip: the second pass gives up after its first model.
ChatExhausted_first(i, n) == i > 1

\* "for model_name in models_to_try" of the second pass has run out.
ChatExhausted(i, n) == i > n

\* A call protocol was attempted on models[idx].
Attempt(proto, idx, model, outcome, text, err) ==
  [ proto |-> proto, idx |-> idx, model |-> model, outcome |-> outcome,
    text |-> text, err |-> err ]

\* unit.pc: "begin", "responses" (first pass), "chat" (second pass),
\* "returned", "raised"; unit.i: the index of the model the loop is at;
\* unit.attempts: history, the calls made to the service.
GenerationInit ==
  /\ \E primary \in Primaries, setting \in FallbackSettings(MaxFallbacks),
        api_key \in ApiKeys :
       unit = [ primary  |-> primary,
                setting  |-> setting,
                api_key  |-> api_key,
                pc       |-> "begin",
                models   |-> << >>,
                i        |-> 0,
                last_err |-> "",
                attempts |-> << >>,
                result   |-> EmptyText,
                error    |-> None ]
  /\ jobs = << >>
  /\ reg = None
  /\ th = [j \in JobIds |-> NewThread]
  /\ whisper = 0
  /\ calls = [j \in JobIds |-> NoCalls]
  /\ log = [j \in JobIds |-> [done_sets |-> 0, after_done |-> 0]]

Idle == UNCHANGED << jobs, reg, th, whisper, calls, log >>

\* models_to_try is built; get_client raises when the key is empty.
generate_begin ==
  /\ unit.pc = "begin"
  /\ unit' = IF unit.api_key = ""
       THEN [unit EXCEPT
               !.models = models_to_try(unit.primary, unit.setting),
               !.pc = "raised", !.error = MissingKeyMsg]
       ELSE [unit EXCEPT
               !.models = models_to_try(unit.primary, unit.setting),
               !.pc = "responses", !.i = 1]
  /\ Idle

\* First pass: client.responses.create answers; the text is returned.
generate_responses_ok ==
  /\ unit.pc = "responses"
  /\ \E text \in Answers(unit.models[unit.i]) :
       LET a == Attempt("responses", unit.i, unit.models[unit.i], "ok",
                        text, "")
       IN
       unit' = IF ResponsesReturns(text)
         THEN [unit EXCEPT !.pc = "returned", !.result = StripOrEmpty(text),
                           !.attempts = Append(@, a)]
         ELSE [unit EXCEPT !.attempts = Append(@, a),
                           !.pc = IF unit.i = Len(unit.models)
                                    THEN "chat" ELSE "responses",
                           !.i = IF unit.i = Len(unit.models)
                                   THEN 1 ELSE unit.i + 1]
  /\ Idle

\* First pass: client.responses.create raises; break on the permission
\* error, else the next model; after the loop the second pass starts.
generate_responses_fails ==
  /\ unit.pc = "responses"
  /\ \E err \in ServiceErrors :
       LET a == Attempt("responses", unit.i, unit.models[unit.i], "error",
                        EmptyText, err)
           leave == HasScopeSignature(err) \/ unit.i = Len(unit.models)
       IN
       unit' = [unit EXCEPT
                  !.last_err = err,
                  !.attempts = Append(@, a),
                  !.pc = IF leave THEN "chat" ELSE "responses",
                  !.i  = IF leave THEN 1 ELSE unit.i + 1]
  /\ Idle

\* Second pass: client.chat.completions.create answers; a non-empty text is
\* returned, an empty one recorded as the last error.
generate_chat_ok ==
  /\ unit.pc = "chat"
  /\ ~ChatExhausted(unit.i, Len(unit.models))
  /\ \E text \in Answers(unit.models[unit.i]) :
       LET out == StripOrEmpty(text)
           a == Attempt("chat", unit.i, unit.models[unit.i],
                        IF out # EmptyText THEN "ok" ELSE "empty", text, "")
       IN
       unit' = IF ChatReturns(out)
         THEN [unit EXCEPT !.pc = "returned", !.result = out,
                           !.attempts = Append(@, a)]
         ELSE [unit EXCEPT !.last_err = EmptyChatMsg,
                           !.attempts = Append(@, a),
                           !.i = unit.i + 1]
  /\ Idle

\* Second pass: client.chat.completions.create raises.
generate_chat_fails ==
  /\ unit.pc = "chat"
  /\ ~ChatExhausted(unit.i, Len(unit.models))
  /\ \E err \in ServiceErrors :
       unit' = [unit EXCEPT
                  !.last_err = err,
                  !.attempts = Append(@, Attempt("chat", unit.i,
                                 unit.models[unit.i], "error", EmptyText, err)),
                  !.i = unit.i + 1]
  /\ Idle

\* raise RuntimeError("OpenAI request failed. ... Last error: ...")
generate_raise ==
  /\ unit.pc = "chat"
  /\ ChatExhausted(unit.i, Len(unit.models))
  /\ unit' = [unit EXCEPT !.pc = "raised", !.error = OpenAIMsg]
  /\ Idle

GenerationNext ==
  \/ generate_begin
  \/ generate_responses_ok
  \/ generate_responses_fails
  \/ generate_chat_ok
  \/ generate_chat_fails
  \/ generate_raise

GenerationSpec == GenerationInit /\ [][GenerationNext]_vars

\* ------------------------------------------------------------------------
\* Link validation: one call of validate_links, URL by URL
\* ------------------------------------------------------------------------
\* The longest sequence of URLs validated.
MaxFetch == 3

\* URLs with each outcome of Fetch: a page, a page without title, a page
\* with the unavailable marker, a status other than 200, a network fault.
UrlPool ==
  { LinkLine("https://", "ok"), LinkLine("https://", "plain"),
    LinkLine("http://", "private"), LinkLine("https://", "gone"),
    LinkLine("http://", "down") }

\* The sequences of at most n URLs.
RECURSIVE UrlSeqs(_)
UrlSeqs(n) ==
  IF n = 0 THEN { << >> }
  ELSE LET shorter == UrlSeqs(n - 1) IN
       shorter \cup { Append(us, u) : us \in shorter, u \in UrlPool }

\* A plausible slip: the fault of a fetch is not caught.
FaultCaught_none(fault) == FALSE

\* except Exception as e, around the fetch of one URL
FaultCaught(fault) == TRUE

\* unit.pc: "begin", "loop" (inside "with httpx.Client"), "returned",
\* "raised"; unit.i: the index of the URL the loop is at; unit.fetched:
\* history, the URLs h.get was called with.
LinkInit ==
  /\ \E urls \in UrlSeqs(MaxFetch) :
       unit = [ urls    |-> urls,
                pc      |-> "begin",
                i       |-> 0,
                results |-> << >>,
                fetched |-> << >>,
                error   |-> None ]
  /\ jobs = << >>
  /\ reg = None
  /\ th = [j \in JobIds |-> NewThread]
  /\ whisper = 0
  /\ calls = [j \in JobIds |-> NoCalls]
  /\ log = [j \in JobIds |-> [done_sets |-> 0, after_done |-> 0]]

\* if not urls: return results; else the client is opened.
validate_begin ==
  /\ unit.pc = "begin"
  /\ unit' = IF unit.urls = << >>
               THEN [unit EXCEPT !.pc = "returned"]
               ELSE [unit EXCEPT !.pc = "loop", !.i = 1]
  /\ Idle

\* httpx.Client(...) raises, outside the try of the loop.
validate_client_fails ==
  /\ unit.pc = "begin"
  /\ unit.urls # << >>
  /\ unit' = [unit EXCEPT !.pc = "raised", !.error = HttpClientMsg]
  /\ Idle

\* One iteration of "for u in urls".
validate_fetch ==
  /\ unit.pc = "loop"
  /\ unit.i <= Len(unit.urls)
  /\ LET u == unit.urls[unit.i]
         fault == Fetch(u).fault
     IN
     unit' = IF fault # None /\ ~FaultCaught(fault)
       THEN [unit EXCEPT !.pc = "raised", !.error = fault,
                         !.fetched = Append(@, u)]
       ELSE [unit EXCEPT !.results = Append(@, ValidateOne(u)),
                         !.fetched = Append(@, u),
                         !.i = @ + 1]
  /\ Idle

\* The loop is over: return results.
validate_return ==
  /\ unit.pc = "loop"
  /\ unit.i > Len(unit.urls)
  /\ unit' = [unit EXCEPT !.pc = "returned"]
  /\ Idle

LinkNext ==
  \/ validate_begin
  \/ validate_client_fails
  \/ validate_fetch
  \/ validate_return

LinkSpec == LinkInit /\ [][LinkNext]_vars

\* ------------------------------------------------------------------------
\* QA: one call of qa_check
\* ------------------------------------------------------------------------
\* The longest output text checked, in lines.
MaxQaLines == 3

\* Lines of an output text: a title label on a line of its own, bare or with
\* white space around it, a title label inside a longer line, a title of
\* 60 characters, a tags line, a line that starts with "Watch Next" after
\* white space, a line that holds it further on.
QaLinePool ==
  { << Run(required_labels[1], 28) >>,
    << Run("sp", 2), Run(required_labels[2], 29), Run("sp", 1) >>,
    << Run("chr", 8), Run(required_labels[1], 28) >>,
    << Run(required_labels[3], 30), Run("sp", 1), Run("chr", 5) >>,
    << Run("chr", 60) >>,
    << Run("chr", 5), Run("comma", 1), Run("chr", 6) >>,
    << Run("sp", 1), Run("watch", 10), Run("chr", 1) >>,
    << Run("chr", 3), Run("sp", 1), Run("watch", 10) >> }

\* The texts of at most n lines.
RECURSIVE QaTexts(_)
QaTexts(n) ==
  IF n = 0 THEN { << >> }
  ELSE LET shorter == QaTexts(n - 1) IN
       shorter \cup { Append(t, l) : t \in shorter, l \in QaLinePool }

TagsLine == << Run("chr", 5), Run("comma", 1), Run("sp", 1), Run("chr", 6) >>

\* What may stand in a text for the n-th title label: nothing, or the label
\* and a title of 59, 60 or 76 characters on the next line, or the label, a
\* blank line and a title of 75 characters with white space around it.
TitleBlocks(n) ==
  LET label == << Run(required_labels[n], 27 + n) >> IN
  { << >>,
    << label, << Run("chr", 59) >> >>,
    << label, << Run("chr", 60) >> >>,
    << label, << Run("sp", 3) >>,
       << Run("sp", 2), Run("chr", 75), Run("sp", 1) >> >>,
    << label, << Run("chr", 76) >> >> }

\* The texts made of a block for each label, in label order, and a tags
\* line.
TitleTexts ==
  { b1 \o b2 \o b3 \o << TagsLine >> :
      b1 \in TitleBlocks(1), b2 \in TitleBlocks(2), b3 \in TitleBlocks(3) }

\* The most lines that follow the "Type" line of a text.
MaxTsLines == 3

\* Lines after "Type": MM:SS and text, for 00:09, 00:10, 00:70 and 01:05
\* (the last with white space before it), and a line without timestamp.
TsLinePool ==
  { << Run("ts", 9),   Run("sp", 1), Run("chr", 7) >>,
    << Run("ts", 10),  Run("sp", 1), Run("chr", 7) >>,
    << Run("ts", 70),  Run("sp", 2), Run("chr", 7) >>,
    << Run("sp", 2), Run("ts", 105), Run("sp", 1), Run("chr", 7) >>,
    << Run("chr", 12) >> }

RECURSIVE TsLineSeqs(_)
TsLineSeqs(n) ==
  IF n = 0 THEN { << >> }
  ELSE LET shorter == TsLineSeqs(n - 1) IN
       shorter \cup { Append(t, l) : t \in shorter, l \in TsLinePool }

\* The texts with a "Type" line, a timestamp line before it or not, the
\* lines after it and a tags line.
TimestampTexts ==
  { before \o << << Run("type", 4), Run("chr", 9) >> >> \o after
      \o << TagsLine >> :
      before \in { << >>, << << Run("ts", 130), Run("sp", 1), Run("chr", 4) >> >> },
      after \in TsLineSeqs(MaxTsLines) }

\* Validated link lists: none, an unusable link, an unusable and a usable
\* one.
ValidatedPool ==
  { << >>,
    validate_links(<< LinkLine("http://", "down") >>),
    validate_links(<< LinkLine("http://", "down"), LinkLine("https://", "ok") >>) }

\* unit.pc: "call", "returned"; unit.issues: what qa_check returned.
QaInit ==
  /\ \E output_text \in QaTexts(MaxQaLines) \cup TitleTexts \cup TimestampTexts,
        link_mode \in LinkModes, validated_links \in ValidatedPool :
       unit = [ output_text     |-> output_text,
                link_mode       |-> link_mode,
                validated_links |-> validated_links,
                pc              |-> "call",
                issues          |-> << >> ]
  /\ jobs = << >>
  /\ reg = None
  /\ th = [j \in JobIds |-> NewThread]
  /\ whisper = 0
  /\ calls = [j \in JobIds |-> NoCalls]
  /\ log = [j \in JobIds |-> [done_sets |-> 0, after_done |-> 0]]

\* issues = qa_check(output_text, link_mode, validated_links)
qa_call ==
  /\ unit.pc = "call"
  /\ unit' = [unit EXCEPT
       !.pc = "returned",
       !.issues = qa_check(unit.output_text, unit.link_mode,
                           unit.validated_links)]
  /\ Idle

QaNext == qa_call

QaSpec == QaInit /\ [][QaNext]_vars

\* ------------------------------------------------------------------------
\* The progress loop of worker, one segment at a time
\* ------------------------------------------------------------------------
\* The most segments the transcription yields.
MaxSeen == 3

\* s.end of the segments, in seconds, and the durations ffprobe_duration
\* returns (0 when it fails).
SegEnds == {0, 3, 5, 14}

LoopDurations == {0, 7, 11}

\* unit.pc: "begin" (before the update of line 1013), "segments" (in the
\* loop), "end" (after it); unit.progress: the progress of the job record;
\* unit.seen: history, s.end of the segments processed so far.
ProgressInit ==
  /\ \E dur \in LoopDurations :
       unit = [ pc       |-> "begin",
                dur      |-> dur,
                last_pct |-> 0,
                progress |-> 15,
                seen     |-> << >> ]
  /\ jobs = << >>
  /\ reg = None
  /\ th = [j \in JobIds |-> NewThread]
  /\ whisper = 0
  /\ calls = [j \in JobIds |-> NoCalls]
  /\ log = [j \in JobIds |-> [done_sets |-> 0, after_done |-> 0]]

\* update_job(job_id, progress=20, ...); model.transcribe(...); last_pct = 20
progress_begin ==
  /\ unit.pc = "begin"
  /\ unit' = [unit EXCEPT !.pc = "segments", !.progress = 20, !.last_pct = 20]
  /\ Idle

\* One iteration of "for s in segments".
progress_segment ==
  /\ unit.pc = "segments"
  /\ Len(unit.seen) < MaxSeen
  /\ \E end \in SegEnds :
       LET p   == TranscribePct(end, unit.dur)
           adv == unit.dur > 0 /\ ShouldAdvance(p, unit.last_pct)
       IN
       unit' = [unit EXCEPT
         !.seen     = Append(@, end),
         !.last_pct = IF adv THEN p ELSE @,
         !.progress = IF adv THEN p ELSE @]
  /\ Idle

\* The segments are exhausted.
progress_end ==
  /\ unit.pc = "segments"
  /\ unit' = [unit EXCEPT !.pc = "end"]
  /\ Idle

ProgressNext == progress_begin \/ progress_segment \/ progress_end

ProgressSpec == ProgressInit /\ [][ProgressNext]_vars

\* ------------------------------------------------------------------------
\* Properties
\* ------------------------------------------------------------------------
Created == DOMAIN jobs

\* C1: once a job record has done=True it never changes again: at most one
\* update_job call of a job sets done=True and none is made after it.
C1_DoneSetOnce ==
  \A j \in JobIds : log[j].done_sets <= 1 /\ log[j].after_done = 0

\* C2: a job record never has an error together with a non-empty metadata.
C2_ErrorExcludesMetadata ==
  \A j \in Created : ~(jobs[j].error # None /\ jobs[j].metadata # << >>)

\* C3: progress is an integer in 0..100 and no step lowers it.
C3_ProgressMonotone ==
  [][\A j \in DOMAIN jobs' :
       /\ jobs'[j].progress \in 0..100
       /\ j \in Created => jobs'[j].progress >= jobs[j].progress]_vars

\* A job is in the Transcribing stage, its progress was written for a first
\* segment and a second segment, bringing no higher value, was processed.
C3_Witness ==
  \E j \in Created :
    /\ th[j].pc = "segments"
    /\ Len(th[j].lines) = 2
    /\ jobs[j].progress = 34
    /\ jobs[j].stage = StTranscribe

StageOrder ==
  << StQueued, StExtracting, StLoading, StTranscribe, StLinks, StGenerating,
     StQA, StDone >>

\* C4: for a job whose link mode is not "not_provided" the stage only ever
\* moves to the next stage of the pipeline order, or from a stage before
\* Completed to Failed.
C4_StageOrder ==
  [][\A j \in Created :
       (th[j].link_mode # "not_provided" /\ jobs'[j].stage # jobs[j].stage)
       => \/ \E i \in 1..(Len(StageOrder) - 1) :
               jobs[j].stage = StageOrder[i] /\ jobs'[j].stage = StageOrder[i + 1]
          \/ /\ jobs'[j].stage = StError
             /\ \E i \in 1..(Len(StageOrder) - 1) : jobs[j].stage = StageOrder[i]
    ]_vars

\* C5: a job with link mode "not_provided" has either its initial record or,
\* after a single update, the hard-stop record (done, progress 100, qa_pass
\* true, no issues, the fixed message), and none of audio extraction,
\* transcription, link validation, generation and qa_check is invoked for it.
C5_HardStop ==
  \A j \in Created :
    th[j].link_mode = "not_provided" =>
      /\ \/ jobs[j] = InitialJob(j) /\ log[j].done_sets = 0
         \/ /\ jobs[j] = [InitialJob(j) EXCEPT
                 !.done = TRUE, !.progress = 100, !.qa_pass = "True",
                 !.metadata = HardStopMetadata, !.stage = StHardStop]
            /\ log[j].done_sets = 1
      /\ log[j].after_done = 0
      /\ calls[j].extract = 0 /\ calls[j].transcribe = 0
      /\ calls[j].validate = 0 /\ calls[j].generate = 0 /\ calls[j].qa = 0
      /\ th[j].model = 0

C5_Witness ==
  \E j \in Created :
    th[j].link_mode = "not_provided" /\ th[j].pc = "exit" /\ jobs[j].done

\* The transcription engine yielded zero segments for job j: the
\* empty-transcript error was raised.
ZeroSegments(j) ==
  EmptyTranscriptMsg \in {th[j].exc.msg, th[j].exc.context}

\* C6: when the engine yields zero segments the job never completes, link
\* validation, generation and QA are not invoked, and once the job is done its
\* error is the empty-transcript description and its progress 100.
C6_EmptyTranscript ==
  \A j \in Created :
    ZeroSegments(j) =>
      /\ jobs[j].stage # StDone
      /\ calls[j].validate = 0 /\ calls[j].generate = 0 /\ calls[j].qa = 0
      /\ jobs[j].done =>
           /\ jobs[j].error = EmptyTranscriptMsg
           /\ jobs[j].progress = 100
           /\ jobs[j].stage = StError

\* The fault a stage raised: the first exception of the chain.
StageFault(e) == IF e.context # None THEN e.context ELSE e.msg

\* C7: the update of the except clause, made for a fault raised in one of the
\* six stages, sets error to that fault's description, progress to 100, done
\* to true and the stage to Failed, and leaves every other field as it was.
C7_FailureUpdate ==
  [][\A j \in Created :
       (th[j].pc = "except" /\ th'[j].pc # "except"
          /\ jobs[j].stage \in {StExtracting, StLoading, StTranscribe, StLinks,
                                StGenerating, StQA})
       => jobs'[j] = [jobs[j] EXCEPT
                        !.error = StageFault(th[j].exc), !.progress = 100,
                        !.done = TRUE, !.stage = StError]
    ]_vars

\* C8: a job that was created is eventually done, and stays so.
C8_EventuallyDone ==
  (1 \in Created) ~> [](1 \in Created /\ jobs[1].done)

C8_Witness ==
  1 \in Created /\ jobs[1].done /\ th[1].pc = "exit"

\* C9: the deletion of the uploaded file is attempted exactly once on every
\* path of worker, after the last job update (the thread ends with it); the
\* attempt changes no job record and raises nothing, also when it fails.
C9_UnlinkOnce ==
  /\ [](\A j \in JobIds :
          /\ calls[j].unlink <= 1
          /\ th[j].pc = "exit" => calls[j].unlink = 1
          /\ calls[j].unlink = 1 =>
               j \in Created /\ jobs[j].done /\ th[j].pc = "exit")
  /\ [][\A j \in JobIds :
          calls'[j].unlink # calls[j].unlink =>
            /\ jobs' = jobs
            /\ log' = log
            /\ th'[j].exc = th[j].exc
            /\ th'[j].pc = "exit"]_vars

C9_Witness ==
  \E j \in Created :
    /\ th[j].pc = "exit"
    /\ calls[j].unlink_raised = 1
    /\ jobs[j].done
    /\ jobs[j].stage = StDone

\* C10: a job record, once created, is changed only by a step of the worker
\* thread of its own job id, and such a step changes no other job's record;
\* creating a record changes no other record either.
C10_SingleWriter ==
  [][/\ \A j \in Created : j \in DOMAIN jobs'
     /\ \A j \in Created :
          jobs'[j] # jobs[j] =>
            /\ th[j].pc \notin {"idle", "created"}
            /\ th'[j] # th[j]
            /\ \A k \in JobIds \ {j} :
                 /\ th'[k] = th[k]
                 /\ k \in Created => jobs'[k] = jobs[k]
    ]_vars

\* Two jobs are in the middle of the pipeline at once.
C10_Witness ==
  \E j, k \in Created :
    /\ j # k
    /\ th[j].pc = "segments" /\ jobs[j].progress = 75
    /\ th[k].pc = "qa" /\ jobs[k].progress = 96

\* C11: creation, update_job and the status read exclude each other: at most
\* one thread is inside "with jobs_lock", and every snapshot api_status
\* returns is the record as it stood after creation or after a completed
\* update_job call, never a record with only some fields of an update stored
\* (such as done=True with a progress below 100).
C11_AtomicSnapshots ==
  /\ Cardinality({t \in RegThreads : reg.pc[t] = "in"}) <= 1
  /\ reg.snap.code = 200 =>
       /\ reg.snap.body \in reg.whole
       /\ reg.snap.body.done => reg.snap.body.progress = 100

\* A snapshot was returned for the job in its QA stage, and the worker is now
\* in the middle of an update: the record holds a part of it.
C11_Witness ==
  /\ reg.snap.code = 200
  /\ reg.snap.body.stage = StQA
  /\ reg.pc["work"] = "in"
  /\ jobs[1] \notin reg.whole

\* The calls call_openai_metadata has made to the service, and the models of
\* its list.
Att == unit.attempts

NumModels == Len(unit.models)

\* C12: when the first call protocol answers on the k-th model, after failing
\* without the permission error on models 1..k-1, call_openai_metadata
\* returns that answer (stripped) at once: it is the last call made, no later
\* model and no second-protocol call is attempted.
C12_FirstPassReturn ==
  \A k \in 1..Len(Att) :
    (Att[k].proto = "responses" /\ Att[k].outcome = "ok") =>
      /\ k = Len(Att)
      /\ unit.pc = "returned"
      /\ unit.result = StripOrEmpty(Att[k].text)
      /\ Att[k].idx = k /\ Att[k].model = unit.models[k]
      /\ \A h \in 1..(k - 1) :
           /\ Att[h].proto = "responses" /\ Att[h].idx = h
           /\ Att[h].outcome = "error" /\ Att[h].err # ScopeError

\* The first protocol failed on the primary model and answered on the second
\* model of a list of three.
C12_Witness ==
  /\ unit.pc = "returned"
  /\ NumModels = 3
  /\ Len(Att) = 2
  /\ Att[2].proto = "responses" /\ Att[2].idx = 2
  /\ unit.result = Text("text", unit.models[2])

\* C13: after a first-protocol call fails with the permission error no later
\* first-protocol call is made and the next call is the second protocol on
\* the first model; after a first-protocol call fails otherwise on a model
\* that is not the last, the next call is the first protocol on the next
\* model.
C13_EarlyBreak ==
  \A k \in 1..Len(Att) :
    (Att[k].proto = "responses" /\ Att[k].outcome = "error") =>
      IF Att[k].err = ScopeError
        THEN /\ \A h \in (k + 1)..Len(Att) : Att[h].proto = "chat"
             /\ k < Len(Att) => Att[k + 1].idx = 1
             /\ k = Len(Att) => unit.pc = "chat" /\ unit.i = 1
        ELSE Att[k].idx < NumModels =>
             /\ k < Len(Att) =>
                  /\ Att[k + 1].proto = "responses"
                  /\ Att[k + 1].idx = Att[k].idx + 1
             /\ k = Len(Att) =>
                  unit.pc = "responses" /\ unit.i = Att[k].idx + 1

\* The permission error came on the first of three models and the second
\* protocol was then called on that first model.
C13_Witness ==
  /\ NumModels = 3
  /\ Len(Att) >= 2
  /\ Att[1].proto = "responses" /\ Att[1].err = ScopeError
  /\ Att[2].proto = "chat" /\ Att[2].idx = 1

\* The first pass ran out of models or was abandoned on the permission error.
FirstPassOver ==
  \E k \in 1..Len(Att) :
    /\ Att[k].proto = "responses" /\ Att[k].outcome = "error"
    /\ Att[k].err = ScopeError \/ Att[k].idx = NumModels
    /\ \A h \in 1..k : Att[h].proto = "responses" /\ Att[h].idx = h

\* Every model of the list was attempted with the second protocol, and each
\* attempt failed or answered with an empty text.
SecondPassOver ==
  \A i \in 1..NumModels :
    \E k \in 1..Len(Att) :
      /\ Att[k].proto = "chat" /\ Att[k].idx = i
      /\ Att[k].outcome \in {"error", "empty"}

\* C14, as stated: whenever call_openai_metadata raises, the first pass is
\* over and every model was attempted, without success, with the second
\* protocol.
C14_RaisesOnlyExhausted ==
  unit.pc = "raised" => FirstPassOver /\ SecondPassOver

\* C14, amended: the same for a call that obtained a client, that is whose
\* API key is not empty; with an empty key get_client raises before any
\* attempt.
C14_RaisesOnlyExhaustedWithKey ==
  /\ (unit.pc = "raised" /\ unit.api_key # "") =>
       /\ FirstPassOver /\ SecondPassOver
       /\ unit.error = OpenAIMsg
  /\ (unit.pc = "raised" /\ unit.api_key = "") =>
       Att = << >> /\ unit.error = MissingKeyMsg

\* The call raised after three models failed in both passes, one of them
\* with an empty answer in the second pass.
C14_Witness ==
  /\ unit.pc = "raised" /\ unit.api_key # ""
  /\ NumModels = 3
  /\ Len(Att) = 6
  /\ Att[5].outcome = "empty"

\* C15: a second-protocol answer with non-empty text is returned at once and
\* is the last call made; an empty or white-space answer is recorded as the
\* last error and the loop goes on with the next model; the text returned
\* through the second protocol is never empty.
C15_SecondPass ==
  /\ \A k \in 1..Len(Att) :
       Att[k].proto = "chat" =>
         /\ Att[k].outcome = "ok" =>
              /\ k = Len(Att) /\ unit.pc = "returned"
              /\ unit.result = StripOrEmpty(Att[k].text)
         /\ Att[k].outcome = "empty" =>
              /\ k < Len(Att) =>
                   Att[k + 1].proto = "chat" /\ Att[k + 1].idx = Att[k].idx + 1
              /\ k = Len(Att) =>
                   /\ unit.last_err = EmptyChatMsg
                   /\ unit.pc \in {"chat", "raised"}
                   /\ unit.i = Att[k].idx + 1
  /\ (unit.pc = "returned" /\ Att[Len(Att)].proto = "chat") =>
       unit.result # EmptyText

\* The second protocol answered with white space on the first model and with
\* a text on the second, which was returned.
C15_Witness ==
  /\ unit.pc = "returned"
  /\ Len(Att) >= 2
  /\ Att[Len(Att)].proto = "chat" /\ Att[Len(Att)].idx = 2
  /\ Att[Len(Att) - 1].proto = "chat"
  /\ Att[Len(Att) - 1].text = Text(" ", "")
  /\ unit.result = Text("text", unit.models[2])

\* C16: the list of models has the primary first, then the configured
\* fallbacks other than the primary in their configured order, and no model
\* name twice.
C16_ModelList ==
  unit.pc # "begin" =>
    /\ unit.models[1] = unit.primary
    /\ Tail(unit.models)
         = SelectSeq(fallbacks(unit.setting), LAMBDA m : m # unit.primary)
    /\ \A a, b \in 1..NumModels : a # b => unit.models[a] # unit.models[b]

\* C17: validate_links answers every URL in input order with one result,
\* whatever the outcome of each fetch: a fetch that faults gives ok=False
\* with the fault as reason, a status other than 200 or an unavailable page
\* gives ok=False, any other page ok=True; no fault of a fetch is raised (the
\* call raises only when the client cannot be opened, before any fetch), and
\* the URLs after a faulting one are fetched all the same.
C17_FaultIsolation ==
  /\ unit.pc = "raised" => unit.fetched = << >> /\ unit.error = HttpClientMsg
  /\ Len(unit.results) = Len(unit.fetched)
  /\ \A k \in 1..Len(unit.results) :
       LET r == unit.results[k]
           f == Fetch(unit.urls[k])
       IN
       /\ r.url = unit.urls[k]
       /\ unit.fetched[k] = unit.urls[k]
       /\ f.fault # None => ~r.ok /\ r.reason = f.fault
       /\ r.ok <=> /\ f.fault = None /\ f.status = 200
                   /\ f.body \notin {"video unavailable", "private video"}
  /\ unit.pc = "returned" =>
       /\ Len(unit.results) = Len(unit.urls)
       /\ unit.results = validate_links(unit.urls)

\* Three URLs were validated: the second faulted, the third was fetched after
\* it and is usable.
C17_Witness ==
  /\ unit.pc = "returned"
  /\ Len(unit.urls) = 3
  /\ Fetch(unit.urls[2]).fault # None
  /\ unit.results[2].reason = "ConnectError"
  /\ unit.results[3].ok
  /\ ~unit.results[1].ok

\* C18: validate_links is called, and a URL fetched, for a job only when its
\* link mode is "provided" and its links text held a URL; in every other case
\* no fetch is made and the validated links handed to generation and QA are
\* empty; validate_links of no URL is the empty list.
C18_FetchOnlyWhenProvided ==
  /\ [](/\ validate_links(<< >>) = << >>
        /\ \A j \in JobIds :
             /\ th[j].link_mode # "provided" =>
                  /\ calls[j].validate = 0 /\ calls[j].fetch = 0
                  /\ th[j].validated = << >>
             /\ calls[j].fetch > 0 => calls[j].validate = 1
             /\ th[j].validated # << >> =>
                  Len(th[j].validated) = calls[j].fetch)
  /\ [][\A j \in JobIds :
          (th[j].pc = "links" /\ th'[j].pc = "generate") =>
            IF calls'[j].validate # calls[j].validate
              THEN /\ th[j].link_mode = "provided"
                   /\ calls'[j].fetch >= 1
                   /\ Len(th'[j].validated) = calls'[j].fetch
              ELSE /\ calls'[j].fetch = 0
                   /\ th'[j].validated = << >>]_vars

\* A "provided" job had its one URL fetched and reached QA with the
\* validated link; another "provided" job without a URL reached QA with no
\* fetch made.
C18_Witness ==
  \E j, k \in Created :
    /\ th[j].link_mode = "provided" /\ th[j].pc = "qa"
    /\ calls[j].fetch = 1 /\ Len(th[j].validated) = 1
    /\ th[k].link_mode = "provided" /\ th[k].pc = "qa"
    /\ calls[k].fetch = 0 /\ th[k].validated = << >>

\* C19: QA is advisory.  The update that stores the result of qa_check
\* changes qa_issues and qa_pass only, also when there are violations, and
\* nothing can fail between it and the Done update; a job whose QA run found
\* violations goes on to Completed with done=True, error None, qa_pass False
\* and qa_issues the violations found.
C19_QaAdvisory ==
  /\ [][\A j \in Created :
          /\ (th[j].pc = "qa" /\ th'[j].pc # "qa") =>
               LET issues == qa_check(th[j].metadata, th[j].link_mode,
                                      th[j].validated)
               IN
               /\ jobs'[j] = [jobs[j] EXCEPT
                    !.qa_issues = issues,
                    !.qa_pass = IF issues = << >> THEN "True" ELSE "False"]
               /\ th'[j].pc = "done" /\ th'[j].exc = NoExc
          /\ (th[j].pc = "done" /\ th'[j].pc # "done") =>
               /\ jobs'[j] = [jobs[j] EXCEPT
                    !.stage = StDone, !.done = TRUE, !.progress = 100,
                    !.transcript = th[j].lines, !.metadata = th[j].metadata]
               /\ jobs'[j].error = None
               /\ th'[j].exc = NoExc]_vars
  /\ (1 \in Created /\ th[1].pc = "done" /\ jobs[1].qa_pass = "False")
       ~> (/\ 1 \in Created
           /\ jobs[1].stage = StDone /\ jobs[1].done
           /\ jobs[1].error = None
           /\ jobs[1].qa_pass = "False" /\ jobs[1].qa_issues # << >>)

\* A job is Completed with the six violations qa_check finds in the flawed
\* text.
C19_Witness ==
  /\ 1 \in Created
  /\ jobs[1].stage = StDone /\ jobs[1].done /\ jobs[1].error = None
  /\ jobs[1].qa_pass = "False"
  /\ Len(jobs[1].qa_issues) = 6
  /\ jobs[1].metadata = OutFlawed

\* The label is a line of the text on its own (white space around it apart).
StandaloneLabel(txt, lab) ==
  \E i \in 1..Len(txt) : IsLabelLine(txt[i], lab)

\* The missing-label violations reported for the label.
MissingLabelReports(issues, lab) ==
  { k \in 1..Len(issues) :
      issues[k].msg = "Missing title label" /\ issues[k].lab = lab }

\* C20: qa_check reports one missing-label violation for each required label
\* that is no line of the text on its own, also when the label occurs inside
\* a longer line, and none for a label that is.
C20_MissingLabels ==
  unit.pc = "returned" =>
    \A n \in 1..Len(required_labels) :
      Cardinality(MissingLabelReports(unit.issues, required_labels[n]))
        = IF StandaloneLabel(unit.output_text, required_labels[n])
            THEN 0 ELSE 1

\* The title of a label: the index of the next non-blank line after the
\* first line that is the label on its own; 0 when there is no such line.
TitleLineOf(txt, lab) ==
  LET at == { i \in 1..Len(txt) : IsLabelLine(txt[i], lab) } IN
  IF at = {} THEN 0
  ELSE LET first == CHOOSE i \in at : \A h \in at : i <= h
           after == { i \in (first + 1)..Len(txt) : ~IsBlank(txt[i]) }
       IN  IF after = {} THEN 0
           ELSE CHOOSE i \in after : \A h \in after : i <= h

\* The title-length violations reported for the label.
TitleLengthReports(issues, lab) ==
  { k \in 1..Len(issues) :
      issues[k].msg = "Title length after (must be 60-75)"
        /\ issues[k].lab = lab }

\* C21: for each title label, qa_check reports a title-length violation
\* exactly when the label stands on a line of its own and the next non-blank
\* line after it has a stripped length below 60 or above 75; the verdict for
\* a label is that of its own title line, whatever the other labels have.
C21_TitleLength ==
  unit.pc = "returned" =>
    \A n \in 1..Len(required_labels) :
      LET lab == required_labels[n]
          t   == TitleLineOf(unit.output_text, lab)
          L   == IF t = 0 THEN 0 ELSE strlen(strip(unit.output_text[t]))
          reports == TitleLengthReports(unit.issues, lab)
      IN
      IF t # 0 /\ (L < 60 \/ L > 75)
        THEN /\ Cardinality(reports) = 1
             /\ \A k \in reports : unit.issues[k].n = L
        ELSE reports = {}

\* The three labels have titles of 60, 75 (after a blank line, with white
\* space around it) and 76 characters: one violation, for the third.
C21_Witness ==
  /\ unit.pc = "returned"
  /\ \A n \in 1..3 : TitleLineOf(unit.output_text, required_labels[n]) # 0
  /\ strlen(strip(unit.output_text[2])) = 60
  /\ strlen(strip(unit.output_text[5])) = 75
  /\ strlen(strip(unit.output_text[7])) = 76
  /\ TitleLengthReports(unit.issues, required_labels[1]) = {}
  /\ TitleLengthReports(unit.issues, required_labels[2]) = {}
  /\ TitleLengthReports(unit.issues, required_labels[3]) # {}

\* The lines that carry a timestamp after the first line beginning with
\* "Type": their indices.
TsLinesAfterType(txt) ==
  LET types == { i \in 1..Len(txt) : StartsWith(txt[i], "type") } IN
  IF types = {} THEN {}
  ELSE LET first == CHOOSE i \in types : \A h \in types : i <= h IN
       { i \in (first + 1)..Len(txt) : IsTimestampLine(txt[i]) }

\* The seconds of the timestamp of line i: minutes times 60 plus seconds.
SecondsAt(txt, i) ==
  LET mmss == strip(txt[i])[1].n IN 60 * (mmss \div 100) + (mmss % 100)

OrderReported(issues) ==
  \E k \in 1..Len(issues) :
    issues[k].msg = "Education Problems timestamps are not strictly increasing or contain duplicates."

\* C22: qa_check reports a timestamp-order violation exactly when two
\* timestamp lines after the first "Type" line, with no timestamp line
\* between them, are not strictly increasing in seconds; lines without a
\* timestamp are passed over and do not end the sequence.
C22_TimestampOrder ==
  unit.pc = "returned" =>
    LET txt == unit.output_text
        at  == TsLinesAfterType(txt)
    IN  OrderReported(unit.issues)
          <=> \E i, j \in at :
                /\ i < j
                /\ \A h \in at : ~(i < h /\ h < j)
                /\ SecondsAt(txt, i) >= SecondsAt(txt, j)

\* 00:70 and then 01:05 with a line without timestamp between them: the
\* numbers grow, the seconds do not, and the violation is reported.
C22_Witness ==
  /\ unit.pc = "returned"
  /\ \E i, j \in TsLinesAfterType(unit.output_text) :
       /\ j = i + 2
       /\ ~IsTimestampLine(unit.output_text[i + 1])
       /\ SecondsAt(unit.output_text, i) = 70
       /\ SecondsAt(unit.output_text, j) = 65
  /\ Cardinality(TsLinesAfterType(unit.output_text)) = 2
  /\ OrderReported(unit.issues)

\* Strictly increasing timestamps with a line without timestamp among them
\* and a later timestamp before "Type": nothing is reported.
C22_WitnessIncreasing ==
  /\ unit.pc = "returned"
  /\ Cardinality(TsLinesAfterType(unit.output_text)) = 2
  /\ IsTimestampLine(unit.output_text[1])
  /\ \E i \in 1..Len(unit.output_text) :
       /\ i \notin TsLinesAfterType(unit.output_text)
       /\ i - 1 \in TsLinesAfterType(unit.output_text)
       /\ i + 1 \in TsLinesAfterType(unit.output_text)
  /\ ~OrderReported(unit.issues)

WatchReported(issues, msg) == \E k \in 1..Len(issues) : issues[k].msg = msg

\* Some line starts with "Watch Next" after white space is stripped.
WatchLinePresent(txt) ==
  \E i \in 1..Len(txt) :
    LET t == strip(txt[i]) IN t # << >> /\ Head(t).k = "watch"

\* C23: with a Watch Next line in the text, a link mode other than
\* "provided" gives the "links were not provided" violation only; the mode
\* "provided" without a usable validated link gives the "no valid links
\* remained" violation only; the mode "provided" with a usable link, or a
\* text without such a line, gives neither.
C23_WatchNext ==
  unit.pc = "returned" =>
    LET notProvided == WatchReported(unit.issues,
                         "Watch Next present but links were not provided.")
        noValid     == WatchReported(unit.issues,
                         "Watch Next present but no valid links remained.")
        usable      == \E k \in 1..Len(unit.validated_links) :
                         unit.validated_links[k].ok
    IN
    /\ notProvided <=> (WatchLinePresent(unit.output_text)
                          /\ unit.link_mode # "provided")
    /\ noValid <=> (WatchLinePresent(unit.output_text)
                      /\ unit.link_mode = "provided" /\ ~usable)

\* The mode is "provided", the only validated link is unusable and the text
\* has a Watch Next line: "no valid links remained" and not the other.
C23_Witness ==
  /\ unit.pc = "returned"
  /\ WatchLinePresent(unit.output_text)
  /\ unit.link_mode = "provided"
  /\ Len(unit.validated_links) = 1
  /\ ~unit.validated_links[1].ok
  /\ WatchReported(unit.issues, "Watch Next present but no valid links remained.")
  /\ ~WatchReported(unit.issues, "Watch Next present but links were not provided.")

\* 20 + floor(55 * min(1, end / dur)), in exact arithmetic, for dur > 0
ExactPct(end, dur) ==
  20 + (55 * (IF end >= dur THEN dur ELSE end)) \div dur

\* The greatest of 20 and the exact values of the segments processed so far;
\* 20 when the duration is zero.
ExpectedProgress(seen, dur) ==
  IF dur = 0 THEN 20
  ELSE LET vals == {20} \cup { ExactPct(seen[i], dur) : i \in 1..Len(seen) }
       IN  CHOOSE v \in vals : \A w \in vals : w <= v

\* C24: in the Transcribing stage the progress of the job record is in
\* 20..75 and equals the greatest of 20 + floor(55 * min(1, end / duration))
\* over the segments processed so far (20 when the duration is zero), and
\* no segment lowers it.
C24_TranscribeProgress ==
  /\ [](unit.pc \in {"segments", "end"} =>
          /\ unit.progress \in 20..75
          /\ unit.progress = ExpectedProgress(unit.seen, unit.dur))
  /\ [][unit.pc = "segments" => unit'.progress >= unit.progress]_vars

\* The written progress is never above the exact value and at most one below
\* it, is in 20..75, is 20 when the duration is zero, and no segment lowers
\* it.
ProgressNearExact ==
  /\ [](unit.pc \in {"segments", "end"} =>
          /\ unit.progress \in 20..75
          /\ unit.progress <= ExpectedProgress(unit.seen, unit.dur)
          /\ unit.progress >= ExpectedProgress(unit.seen, unit.dur) - 1
          /\ unit.dur = 0 => unit.progress = 20)
  /\ [][unit.pc = "segments" => unit'.progress >= unit.progress]_vars

\* qa_pass True goes with no violation listed, qa_pass False with some.
QaConsistent(r) ==
  /\ r.qa_pass = "True" => r.qa_issues = << >>
  /\ r.qa_pass = "False" => r.qa_issues # << >>

\* C25: in every job state an observer can have (the record between two
\* update_job calls, the answer of a poll) qa_pass True implies an empty
\* qa_issues and qa_pass False a non-empty one; qa_pass and qa_issues change
\* only inside one update_job call, made under the lock, that carries both.
C25_QaPassIssues ==
  /\ [](/\ \A r \in reg.whole : QaConsistent(r)
        /\ reg.snap.code = 200 => QaConsistent(reg.snap.body)
        /\ (1 \in DOMAIN jobs /\ reg.holder # "work") => QaConsistent(jobs[1]))
  /\ [][(/\ 1 \in DOMAIN jobs
         /\ \/ jobs'[1].qa_pass # jobs[1].qa_pass
            \/ jobs'[1].qa_issues # jobs[1].qa_issues)
          => /\ reg.holder = "work"
             /\ reg'.holder = "work"
             /\ {"qa_pass", "qa_issues"} \subseteq DOMAIN Head(reg.todo)]_vars

\* A poll between the QA update and the Done update answered a record with
\* qa_pass False and violations listed, another run one with qa_pass True.
C25_Witness ==
  /\ reg.snap.code = 200
  /\ ~reg.snap.body.done
  /\ reg.snap.body.qa_pass = "False"
  /\ reg.snap.body.qa_issues # << >>

C25_WitnessPass ==
  /\ reg.snap.code = 200
  /\ ~reg.snap.body.done
  /\ reg.snap.body.qa_pass = "True"
  /\ reg.snap.body.qa_issues = << >>

\* C26: a job that ends Completed through the full pipeline (done, no error,
\* stage Done) has a non-empty metadata.
C26_CompletedHasMetadata ==
  \A j \in Created :
    (jobs[j].done /\ jobs[j].error = None /\ jobs[j].stage = StDone)
      => jobs[j].metadata # << >>

\* C27: the speech model is constructed at most once, and the jobs that
\* hold a model hold the same one.
C27_OneSpeechModel ==
  /\ whisper <= 1
  /\ \A i, j \in JobIds :
       (th[i].model # 0 /\ th[j].model # 0) => th[i].model = th[j].model

\* C28: the record of a job is in the registry before its worker thread is
\* started and is never removed, so every update_job call of a worker finds
\* its job id: once the worker has made its first call the record shows it.
C28_NoDroppedUpdate ==
  /\ [](\A j \in JobIds :
          /\ th[j].pc # "idle" => j \in DOMAIN jobs
          /\ th[j].pc \notin {"idle", "created", "start"}
               => jobs[j].progress >= 5)
  /\ [][DOMAIN jobs \subseteq DOMAIN jobs']_vars

\* The record of one job is stored and its thread not yet started, while
\* the worker of the other job has had its updates applied.
C28_Witness ==
  \E j, k \in JobIds :
    /\ th[j].pc = "created"
    /\ j \in DOMAIN jobs
    /\ jobs[j].progress = 1
    /\ th[k].pc = "segments"
    /\ jobs[k].stage = StTranscribe
    /\ jobs[k].progress = 75

\* A record that is not done has an empty transcript and an empty metadata.
NoEarlyResults(r) == ~r.done => (r.transcript = << >> /\ r.metadata = << >>)

\* C29: no answer of a poll, and no record between two update_job calls,
\* has done false with a non-empty transcript or metadata; the two fields
\* change only inside one update_job call, made under the lock, that sets
\* done to true.
C29_ResultsWithDone ==
  /\ [](/\ reg.snap.code = 200 => NoEarlyResults(reg.snap.body)
        /\ \A r \in reg.whole : NoEarlyResults(r)
        /\ (1 \in DOMAIN jobs /\ reg.holder # "work")
             => NoEarlyResults(jobs[1]))
  /\ [][(/\ 1 \in DOMAIN jobs
         /\ \/ jobs'[1].transcript # jobs[1].transcript
            \/ jobs'[1].metadata # jobs[1].metadata)
          => /\ reg.holder = "work"
             /\ reg'.holder = "work"
             /\ "done" \in DOMAIN Head(reg.todo)
             /\ Head(reg.todo).done]_vars

\* The last poll, made after the QA update, answered a record that is not
\* done and has no results; the Done update has since stored the transcript
\* and the metadata with done.
C29_Witness ==
  /\ reg.snap.code = 200
  /\ ~reg.snap.body.done
  /\ reg.snap.body.qa_pass # None
  /\ reg.snap.body.transcript = << >>
  /\ reg.snap.body.metadata = << >>
  /\ reg.holder = None
  /\ 1 \in DOMAIN jobs
  /\ jobs[1].done
  /\ jobs[1].transcript # << >>
  /\ jobs[1].metadata # << >>

====
